---- MODULE Spec2Model ----
(***************************************************************************)
(* The TicTacToe server (src/scripts/test-load.sh, lines 183-627, the      *)
(* Express application): the games, moves and player_stats tables, the     *)
(* move handler with its three database steps, and updatePlayerStats.      *)
(***************************************************************************)
EXTENDS Integers, Sequences, FiniteSets, TLC

VARIABLES
    games,          \* table games: id -> row, or NoRow
    moves,          \* table moves: the rows in AUTOINCREMENT order
    player_stats,   \* table player_stats: player_name -> row, or NoRow
    freeIds,        \* the ids uuidv4() can still return
    reqs,           \* per client: its request in flight, its response, or Idle
    statQueue,      \* player_stats statements handed to db.run, not yet run
    statCalls,      \* per game id: how often updatePlayerStats was called for it
    outcomes,       \* per key: how many outcomes were handed to updatePlayerStats
    dbFailures,     \* how many database statements have failed so far
    proc,           \* the process: HTTP server, database connection, shutdown, exit
    browser,        \* the browser client: its game state and the responses on their way
    retry           \* one call of retry_npm or build_image of the build scripts

vars == <<games, moves, player_stats, freeIds, reqs, statQueue, statCalls, outcomes, dbFailures, proc,
          browser, retry>>

----------------------------------------------------------------------------
(* Values *)

NULL == "null"

NoRow == [absent |-> TRUE]

Idle == [pc |-> "idle"]

Marks == {"X", "O"}

Cells == 0..8

GameIds == {"g1", "g2"}

RequestIds == {"g1", "non-existent-id"}

StatKeys == {"X", "O", "Draw"}

\* A JSON number n/d of a request body, or a field that is missing.
Num(n) == [t |-> "number", n |-> n, d |-> 1]

Undefined == [t |-> "undefined"]

PositionInputs == {Num(n) : n \in -1..9} \cup {[t |-> "number", n |-> 3, d |-> 2], Undefined}

PlayerInputs == Marks

\* The bounds of the model.
MaxClients == 2

MaxDbFailures == 1

MaxOutcomes == 6

MaxSignals == 2

MaxAttempts == 5

----------------------------------------------------------------------------
(* Game logic *)

winPatterns ==
    << <<0, 1, 2>>, <<3, 4, 5>>, <<6, 7, 8>>,
       <<0, 3, 6>>, <<1, 4, 7>>, <<2, 5, 8>>,
       <<0, 4, 8>>, <<2, 4, 6>> >>

PatternComplete(board, i) ==
    LET a == winPatterns[i][1]
        b == winPatterns[i][2]
        c == winPatterns[i][3]
    IN  board[a] # "" /\ board[a] = board[b] /\ board[a] = board[c]

\* checkWinner that scans the rows and the columns and not the diagonals.
checkWinner_RowsAndColumns(board) ==
    LET hits == {i \in 1..6 : PatternComplete(board, i)}
    IN  IF hits = {} THEN NULL
        ELSE LET first == CHOOSE i \in hits : \A j \in hits : i <= j
             IN  board[winPatterns[first][1]]

\* The first pattern of the list that is complete decides.
checkWinner(board) ==
    LET hits == {i \in 1..Len(winPatterns) : PatternComplete(board, i)}
    IN  IF hits = {} THEN NULL
        ELSE LET first == CHOOSE i \in hits : \A j \in hits : i <= j
             IN  board[winPatterns[first][1]]

\* The loop of checkWinner over the patterns taken in the given order.
RECURSIVE checkWinnerIn(_, _)
checkWinnerIn(board, order) ==
    IF order = << >> THEN NULL
    ELSE IF PatternComplete(board, Head(order)) THEN board[winPatterns[Head(order)][1]]
    ELSE checkWinnerIn(board, Tail(order))

\* checkForDraw that is satisfied with eight marked cells.
checkForDraw_EightCells(board) == Cardinality({c \in Cells : board[c] # ""}) >= 8

checkForDraw(board) == \A c \in Cells : board[c] # ""

\* The board column holds JSON text: the cells in order, as a list.
JSONStringify(board) == [i \in 1..9 |-> board[i - 1]]

JSONParse(text) == [c \in Cells |-> text[c + 1]]

EmptyBoard == [c \in Cells |-> ""]

\* A BOOLEAN column holds 0 or 1.
SqlBool(b) == IF b THEN 1 ELSE 0

----------------------------------------------------------------------------
(* The move handler's checks and computation *)

IsIndex(position) ==
    /\ position.t = "number"
    /\ position.n % position.d = 0
    /\ position.n \div position.d \in Cells

\* board[position]: a cell, or undefined when position is no index of the array.
BoardAt(board, position) ==
    IF IsIndex(position) THEN board[position.n \div position.d] ELSE "undefined"

\* The checks made before the game is read.
RequestError(position, player) ==
    IF position = Undefined THEN "Position and player are required"
    ELSE IF position.n < 0 \/ position.n > 8 * position.d THEN "Invalid position"
    ELSE ""

\* GameError without the check of the finished game.
GameError_NoFinishedCheck(game, position, player) ==
    IF game = NoRow THEN "Game not found"
    ELSE IF player # game.current_player THEN "Not your turn"
    ELSE IF BoardAt(JSONParse(game.board), position) # "" THEN "Position already taken"
    ELSE ""

\* GameError with the cell looked at before the turn.
GameError_OccupiedFirst(game, position, player) ==
    IF game = NoRow THEN "Game not found"
    ELSE IF BoardAt(JSONParse(game.board), position) # "" THEN "Position already taken"
    ELSE IF player # game.current_player THEN "Not your turn"
    ELSE IF game.winner # NULL \/ game.is_draw # 0 THEN "Game is already finished"
    ELSE ""

\* GameError with the finished game looked at first.
GameError_FinishedFirst(game, position, player) ==
    IF game = NoRow THEN "Game not found"
    ELSE IF game.winner # NULL \/ game.is_draw # 0 THEN "Game is already finished"
    ELSE IF player # game.current_player THEN "Not your turn"
    ELSE IF BoardAt(JSONParse(game.board), position) # "" THEN "Position already taken"
    ELSE ""

\* GameError without the check of the turn.
GameError_NoTurnCheck(game, position, player) ==
    IF game = NoRow THEN "Game not found"
    ELSE IF BoardAt(JSONParse(game.board), position) # "" THEN "Position already taken"
    ELSE IF game.winner # NULL \/ game.is_draw # 0 THEN "Game is already finished"
    ELSE ""

\* The checks made on the row that SELECT returned, in the handler's order.
GameError(game, position, player) ==
    IF game = NoRow THEN "Game not found"
    ELSE IF player # game.current_player THEN "Not your turn"
    ELSE IF BoardAt(JSONParse(game.board), position) # "" THEN "Position already taken"
    ELSE IF game.winner # NULL \/ game.is_draw # 0 THEN "Game is already finished"
    ELSE ""

StatusOf(error) ==
    IF error = "" THEN 200
    ELSE IF error = "Game not found" THEN 404
    ELSE 400

\* MakeMove with isDraw = checkForDraw(board), the winner not looked at.
MakeMove_DrawIgnoresWinner(game, position, player) ==
    LET board == [JSONParse(game.board) EXCEPT ![position.n \div position.d] = player]
    IN  [board      |-> board,
         nextPlayer |-> IF player = "X" THEN "O" ELSE "X",
         winner     |-> checkWinner(board),
         isDraw     |-> checkForDraw(board)]

\* MakeMove with the winner looked for on the board as it was before the move.
MakeMove_WinnerBeforeMove(game, position, player) ==
    LET board == [JSONParse(game.board) EXCEPT ![position.n \div position.d] = player]
        winner == checkWinner(JSONParse(game.board))
    IN  [board      |-> board,
         nextPlayer |-> IF player = "X" THEN "O" ELSE "X",
         winner     |-> winner,
         isDraw     |-> winner = NULL /\ checkForDraw(board)]

\* "Make the move": the values the handler computes from the row it read.
MakeMove(game, position, player) ==
    LET board == [JSONParse(game.board) EXCEPT ![position.n \div position.d] = player]
        winner == checkWinner(board)
    IN  [board      |-> board,
         nextPlayer |-> IF player = "X" THEN "O" ELSE "X",
         winner     |-> winner,
         isDraw     |-> winner = NULL /\ checkForDraw(board)]

----------------------------------------------------------------------------
(* The database statements *)

\* InsertGame with O as the first player.
InsertGame_StartsWithO(tbl, id) ==
    [tbl EXCEPT ![id] = [board          |-> JSONStringify(EmptyBoard),
                         current_player |-> "O",
                         winner         |-> NULL,
                         is_draw        |-> 0]]

\* INSERT INTO games (id, board, current_player)
InsertGame(tbl, id) ==
    [tbl EXCEPT ![id] = [board          |-> JSONStringify(EmptyBoard),
                         current_player |-> "X",
                         winner         |-> NULL,
                         is_draw        |-> 0]]

\* INSERT INTO moves (game_id, player, position)
InsertMove(tbl, id, player, position) ==
    Append(tbl, [game_id |-> id, player |-> player, position |-> position.n \div position.d])

\* UpdateGame that leaves the winner column as it is in a game in progress.
UpdateGame_WinnerNotStored(tbl, id, m) ==
    IF tbl[id] = NoRow THEN tbl
    ELSE [tbl EXCEPT ![id] = [board          |-> JSONStringify(m.board),
                              current_player |-> m.nextPlayer,
                              winner         |-> NULL,
                              is_draw        |-> SqlBool(m.isDraw)]]

\* UPDATE games SET board, current_player, winner, is_draw WHERE id
UpdateGame(tbl, id, m) ==
    IF tbl[id] = NoRow THEN tbl
    ELSE [tbl EXCEPT ![id] = [board          |-> JSONStringify(m.board),
                              current_player |-> m.nextPlayer,
                              winner         |-> m.winner,
                              is_draw        |-> SqlBool(m.isDraw)]]

\* The counters of a row of player_stats.
Columns == {"wins", "losses", "draws", "total_games"}

\* COALESCE((SELECT column FROM player_stats WHERE player_name = key), 0)
Coalesce(tbl, key, column) ==
    IF tbl[key] = NoRow THEN 0
    ELSE IF column = "wins" THEN tbl[key].wins
    ELSE IF column = "losses" THEN tbl[key].losses
    ELSE IF column = "draws" THEN tbl[key].draws
    ELSE tbl[key].total_games

\* UpsertStat with the values 1, the old values not read.
UpsertStat_NoCoalesce(tbl, key, column) ==
    [tbl EXCEPT ![key] =
        [wins        |-> IF column = "wins" THEN 1 ELSE 0,
         losses      |-> IF column = "losses" THEN 1 ELSE 0,
         draws       |-> IF column = "draws" THEN 1 ELSE 0,
         total_games |-> 1]]

\* UpsertStat with total_games carried over and not counted up.
UpsertStat_TotalKept(tbl, key, column) ==
    [tbl EXCEPT ![key] =
        [wins        |-> IF column = "wins" THEN Coalesce(tbl, key, "wins") + 1 ELSE 0,
         losses      |-> IF column = "losses" THEN Coalesce(tbl, key, "losses") + 1 ELSE 0,
         draws       |-> IF column = "draws" THEN Coalesce(tbl, key, "draws") + 1 ELSE 0,
         total_games |-> Coalesce(tbl, key, "total_games")]]

\* INSERT OR REPLACE INTO player_stats (player_name, <column>, total_games, updated_at):
\* the row of that name is replaced as a whole; the columns the statement does not
\* name take their DEFAULT 0.
UpsertStat(tbl, key, column) ==
    [tbl EXCEPT ![key] =
        [wins        |-> IF column = "wins" THEN Coalesce(tbl, key, "wins") + 1 ELSE 0,
         losses      |-> IF column = "losses" THEN Coalesce(tbl, key, "losses") + 1 ELSE 0,
         draws       |-> IF column = "draws" THEN Coalesce(tbl, key, "draws") + 1 ELSE 0,
         total_games |-> Coalesce(tbl, key, "total_games") + 1]]

\* updatePlayerStats without the statement for the loser.
updatePlayerStats_WinnerOnly(winner, isDraw) ==
    IF isDraw THEN << [key |-> "Draw", column |-> "draws"] >>
    ELSE IF winner # NULL THEN << [key |-> winner, column |-> "wins"] >>
    ELSE << >>

\* The statements one call of updatePlayerStats hands to db.run, in order.
updatePlayerStats(winner, isDraw) ==
    IF isDraw THEN << [key |-> "Draw", column |-> "draws"] >>
    ELSE IF winner # NULL THEN
        << [key |-> winner, column |-> "wins"],
           [key |-> IF winner = "X" THEN "O" ELSE "X", column |-> "losses"] >>
    ELSE << >>

RECURSIVE RunStatements(_, _)
RunStatements(tbl, stmts) ==
    IF stmts = << >> THEN tbl
    ELSE RunStatements(UpsertStat(tbl, Head(stmts).key, Head(stmts).column), Tail(stmts))

----------------------------------------------------------------------------
(* Requests that do not overlap: each handler runs to its response *)

Clients == 1..MaxClients

Response(id, status, error) == [pc |-> "done", id |-> id, status |-> status, error |-> error]

\* The client takes its response; its next request can follow.
Deliver(c) ==
    /\ reqs[c] # Idle
    /\ reqs[c].pc = "done"
    /\ reqs' = [reqs EXCEPT ![c] = Idle]
    /\ UNCHANGED <<games, moves, player_stats, freeIds, statQueue, statCalls, outcomes, dbFailures, proc, browser, retry>>

\* POST /api/games
CreateGame(c) ==
    /\ reqs[c] = Idle
    /\ \E id \in freeIds :
        /\ games' = InsertGame(games, id)
        /\ freeIds' = freeIds \ {id}
        /\ reqs' = [reqs EXCEPT ![c] = Response(id, 201, "")]
    /\ UNCHANGED <<moves, player_stats, statQueue, statCalls, outcomes, dbFailures, proc, browser, retry>>

GameRow(tbl, id) == IF id \in GameIds THEN tbl[id] ELSE NoRow

\* The error a move request ends with, "" when it passes every check.
MoveError(tbl, id, position, player) ==
    IF RequestError(position, player) # "" THEN RequestError(position, player)
    ELSE GameError(GameRow(tbl, id), position, player)

\* POST /api/games/:id/move, rejected by one of its checks
MoveRejected(c, id, position, player) ==
    /\ reqs[c] = Idle
    /\ MoveError(games, id, position, player) # ""
    /\ reqs' = [reqs EXCEPT ![c] =
            LET error == MoveError(games, id, position, player)
            IN  Response(id, StatusOf(error), error)]
    /\ UNCHANGED <<games, moves, player_stats, freeIds, statQueue, statCalls, outcomes, dbFailures, proc, browser, retry>>

\* GetError with the check of the missing row left out.
GetError_NoCheck(game) == ""

\* The check made on the row that the SELECT of GET /api/games/:id returned.
GetError(game) == IF game = NoRow THEN "Game not found" ELSE ""

\* The error a read request ends with, "" when the game is returned.
ReadError(tbl, id) == GetError(GameRow(tbl, id))

\* GET /api/games/:id: 404 when there is no row, else the row as JSON.
GetGame(c, id) ==
    /\ reqs[c] = Idle
    /\ reqs' = [reqs EXCEPT ![c] =
            LET error == ReadError(games, id)
            IN  Response(id, StatusOf(error), error)]
    /\ UNCHANGED <<games, moves, player_stats, freeIds, statQueue, statCalls, outcomes, dbFailures, proc, browser, retry>>

\* Finished with the draw forgotten: if (winner).
Finished_WinnerOnly(m) == m.winner # NULL

\* if (winner || isDraw)
Finished(m) == m.winner # NULL \/ m.isDraw

OutcomeKey(m) == IF m.isDraw THEN "Draw" ELSE m.winner

\* The call of updatePlayerStats at the end of a handler whose move ended the game,
\* with its statements run before the next request.
StatsAfter(m) ==
    /\ player_stats' =
        IF Finished(m)
        THEN RunStatements(player_stats, updatePlayerStats(m.winner, m.isDraw))
        ELSE player_stats
    /\ outcomes' = IF Finished(m) THEN [outcomes EXCEPT ![OutcomeKey(m)] = @ + 1] ELSE outcomes

\* POST /api/games/:id/move, accepted: INSERT, UPDATE, updatePlayerStats, response
MoveAccepted(c, id, position, player) ==
    /\ reqs[c] = Idle
    /\ MoveError(games, id, position, player) = ""
    /\ LET m == MakeMove(games[id], position, player)
       IN  /\ moves' = InsertMove(moves, id, player, position)
           /\ games' = UpdateGame(games, id, m)
           /\ StatsAfter(m)
           /\ statCalls' = IF Finished(m) THEN [statCalls EXCEPT ![id] = @ + 1] ELSE statCalls
    /\ reqs' = [reqs EXCEPT ![c] = Response(id, 200, "")]
    /\ UNCHANGED <<freeIds, statQueue, dbFailures, proc, browser, retry>>

CanFail == dbFailures < MaxDbFailures

\* GET /api/games/:id, the SELECT fails
GetFails(c, id) ==
    /\ reqs[c] = Idle
    /\ CanFail
    /\ dbFailures' = dbFailures + 1
    /\ reqs' = [reqs EXCEPT ![c] = Response(id, 500, "Failed to fetch game")]
    /\ UNCHANGED <<games, moves, player_stats, freeIds, statQueue, statCalls, outcomes, proc, browser, retry>>

\* POST /api/games, the INSERT fails
CreateFails(c) ==
    /\ reqs[c] = Idle
    /\ CanFail
    /\ freeIds # {}
    /\ dbFailures' = dbFailures + 1
    /\ reqs' = [reqs EXCEPT ![c] = Response("", 500, "Failed to create game")]
    /\ UNCHANGED <<games, moves, player_stats, freeIds, statQueue, statCalls, outcomes, proc, browser, retry>>

\* POST /api/games/:id/move, the SELECT fails
MoveSelectFails(c, id, position, player) ==
    /\ reqs[c] = Idle
    /\ CanFail
    /\ RequestError(position, player) = ""
    /\ dbFailures' = dbFailures + 1
    /\ reqs' = [reqs EXCEPT ![c] = Response(id, 500, "Failed to fetch game")]
    /\ UNCHANGED <<games, moves, player_stats, freeIds, statQueue, statCalls, outcomes, proc, browser, retry>>

\* POST /api/games/:id/move, the INSERT into moves fails
MoveInsertFails(c, id, position, player) ==
    /\ reqs[c] = Idle
    /\ CanFail
    /\ MoveError(games, id, position, player) = ""
    /\ dbFailures' = dbFailures + 1
    /\ reqs' = [reqs EXCEPT ![c] = Response(id, 500, "Failed to save move")]
    /\ UNCHANGED <<games, moves, player_stats, freeIds, statQueue, statCalls, outcomes, proc, browser, retry>>

\* POST /api/games/:id/move, the INSERT is done and the UPDATE of games fails
MoveUpdateFails(c, id, position, player) ==
    /\ reqs[c] = Idle
    /\ CanFail
    /\ MoveError(games, id, position, player) = ""
    /\ moves' = InsertMove(moves, id, player, position)
    /\ dbFailures' = dbFailures + 1
    /\ reqs' = [reqs EXCEPT ![c] = Response(id, 500, "Failed to update game")]
    /\ UNCHANGED <<games, player_stats, freeIds, statQueue, statCalls, outcomes, proc, browser, retry>>

----------------------------------------------------------------------------
(* Requests that overlap: each database statement of a handler is a step *)

\* POST /api/games/:id/move up to the callback of db.get: the request passes the
\* checks on the row that SELECT returned, the move is made on the handler's own
\* copy of the board, and the INSERT is handed to db.run.
MoveSelected(c, id, position, player) ==
    /\ reqs[c] = Idle
    /\ MoveError(games, id, position, player) = ""
    /\ reqs' = [reqs EXCEPT ![c] =
            [pc |-> "insert", id |-> id, position |-> position, player |-> player,
             m |-> MakeMove(games[id], position, player)]]
    /\ UNCHANGED <<games, moves, player_stats, freeIds, statQueue, statCalls, outcomes, dbFailures, proc, browser, retry>>

\* The INSERT into moves runs; its callback hands the UPDATE to db.run.
MoveInserted(c) ==
    /\ reqs[c] # Idle
    /\ reqs[c].pc = "insert"
    /\ moves' = InsertMove(moves, reqs[c].id, reqs[c].player, reqs[c].position)
    /\ reqs' = [reqs EXCEPT ![c].pc = "update"]
    /\ UNCHANGED <<games, player_stats, freeIds, statQueue, statCalls, outcomes, dbFailures, proc, browser, retry>>

\* The UPDATE of games runs; its callback calls updatePlayerStats when the move
\* ended the game, and responds.
MoveUpdated(c) ==
    /\ reqs[c] # Idle
    /\ reqs[c].pc = "update"
    /\ LET id == reqs[c].id
           m == reqs[c].m
       IN  /\ games' = UpdateGame(games, id, m)
           /\ statQueue' =
                IF Finished(m) THEN statQueue \o updatePlayerStats(m.winner, m.isDraw)
                ELSE statQueue
           /\ statCalls' = IF Finished(m) THEN [statCalls EXCEPT ![id] = @ + 1] ELSE statCalls
           /\ outcomes' = IF Finished(m) THEN [outcomes EXCEPT ![OutcomeKey(m)] = @ + 1] ELSE outcomes
           /\ reqs' = [reqs EXCEPT ![c] = Response(id, 200, "")]
    /\ UNCHANGED <<moves, player_stats, freeIds, dbFailures, proc, browser, retry>>

RemoveAt(seq, i) == [j \in 1..(Len(seq) - 1) |-> IF j < i THEN seq[j] ELSE seq[j + 1]]

\* One of the statements handed to db.run by updatePlayerStats runs.
StatementRuns(i) ==
    /\ i \in 1..Len(statQueue)
    /\ player_stats' = UpsertStat(player_stats, statQueue[i].key, statQueue[i].column)
    /\ statQueue' = RemoveAt(statQueue, i)
    /\ UNCHANGED <<games, moves, freeIds, reqs, statCalls, outcomes, dbFailures, proc, browser, retry>>

----------------------------------------------------------------------------
(* The cells the clients play *)

MarkOfTurn(k) == IF k % 2 = 1 THEN "X" ELSE "O"

Marked(board) == {c \in Cells : board[c] # ""}

\* The games of Spec open with one of these lines and go on with any cell.
Book == {<<0, 3, 1, 4, 2>>, <<0, 3, 1, 4, 5>>, <<0, 1, 2, 3, 4>>, <<1, 4, 2, 5, 3>>}

BookCells(game) ==
    IF game = NoRow THEN Cells
    ELSE LET board == JSONParse(game.board)
             k == Cardinality(Marked(board))
         IN  IF \A line \in Book : k >= Len(line) THEN Cells
             ELSE {line[k + 1] : line \in
                    {l \in Book : k < Len(l) /\ \A i \in 1..k : board[l[i]] = MarkOfTurn(i)}}

\* The games of SpecAll open with one opening of each class of two-move openings
\* that the symmetries of the board map onto each other.
ClassCells(game) ==
    IF game = NoRow THEN Cells
    ELSE LET marked == Marked(JSONParse(game.board))
         IN  IF marked = {} THEN {0, 1, 4}
             ELSE IF marked = {0} THEN {1, 2, 4, 5, 8}
             ELSE IF marked = {1} THEN {0, 3, 4, 6, 7}
             ELSE IF marked = {4} THEN {0, 1}
             ELSE Cells

----------------------------------------------------------------------------
(* The process and its shutdown *)

Signals == {"SIGTERM", "SIGINT"}

\* The process after the module is loaded: the database is open; server is the
\* listening HTTP server when the file is run directly, and is not set ("none")
\* when the module is loaded by another one.
Serving(server) ==
    [server    |-> server,      \* "none", "listening", "closing", "closed"
     callbacks |-> 0,           \* callbacks of server.close not yet called
     db        |-> "open",      \* "open", "closing", "closed", "failed"
     dbCloses  |-> 0,           \* calls of db.close not yet answered
     timer     |-> FALSE,       \* a forced-shutdown timer is armed
     timedOut  |-> FALSE,       \* a forced-shutdown timer has fired
     signals   |-> 0,           \* signals received so far
     exited    |-> FALSE,
     code      |-> 0]           \* the exit code, once exited

\* gracefulShutdown that closes the database without waiting for the server.
gracefulShutdown_DbFirst(p, signal) ==
    [p EXCEPT !.server = IF @ = "listening" THEN "closing" ELSE @,
              !.callbacks = IF p.server # "none" THEN @ + 1 ELSE @,
              !.timer = p.server # "none",
              !.db = IF @ = "open" THEN "closing" ELSE @,
              !.dbCloses = @ + 1]

\* gracefulShutdown(signal): with a server, server.close with a callback and the
\* forced-shutdown timer; without one, db.close at once.
gracefulShutdown(p, signal) ==
    IF p.server # "none"
    THEN [p EXCEPT !.server = IF @ = "listening" THEN "closing" ELSE @,
                   !.callbacks = @ + 1,
                   !.timer = TRUE]
    ELSE [p EXCEPT !.db = IF @ = "open" THEN "closing" ELSE @,
                   !.dbCloses = @ + 1]

\* The process takes requests: it runs, the server has not been told to close and
\* the database is open.
Accepting == ~proc.exited /\ proc.server \in {"listening", "none"} /\ proc.db = "open"

Running == ~proc.exited

\* process.on('SIGTERM' | 'SIGINT')
SignalReceived(signal) ==
    /\ Running
    /\ proc.signals < MaxSignals
    /\ proc' = gracefulShutdown([proc EXCEPT !.signals = @ + 1], signal)
    /\ UNCHANGED <<games, moves, player_stats, freeIds, reqs, statQueue, statCalls, outcomes, dbFailures, browser, retry>>

\* The server has no connection left: the callbacks given to server.close run, each
\* calls db.close.
ServerClosed ==
    /\ Running
    /\ proc.server \in {"closing", "closed"}
    /\ proc.callbacks > 0
    /\ \A c \in Clients : reqs[c] = Idle
    /\ proc' = [proc EXCEPT !.server = "closed",
                            !.callbacks = 0,
                            !.db = IF @ = "open" THEN "closing" ELSE @,
                            !.dbCloses = @ + proc.callbacks]
    /\ UNCHANGED <<games, moves, player_stats, freeIds, reqs, statQueue, statCalls, outcomes, dbFailures, browser, retry>>

\* The callback of db.close without an error: process.exit(0)
DbClosed ==
    /\ Running
    /\ proc.dbCloses > 0
    /\ proc' = [proc EXCEPT !.db = "closed", !.dbCloses = @ - 1, !.exited = TRUE, !.code = 0]
    /\ UNCHANGED <<games, moves, player_stats, freeIds, reqs, statQueue, statCalls, outcomes, dbFailures, browser, retry>>

\* The callback of db.close with an error: process.exit(1)
DbCloseFails ==
    /\ Running
    /\ proc.dbCloses > 0
    /\ proc' = [proc EXCEPT !.db = "failed", !.dbCloses = @ - 1, !.exited = TRUE, !.code = 1]
    /\ UNCHANGED <<games, moves, player_stats, freeIds, reqs, statQueue, statCalls, outcomes, dbFailures, browser, retry>>

\* The forced-shutdown timer fires: process.exit(1)
TimerFires ==
    /\ Running
    /\ proc.timer
    /\ proc' = [proc EXCEPT !.timedOut = TRUE, !.exited = TRUE, !.code = 1]
    /\ UNCHANGED <<games, moves, player_stats, freeIds, reqs, statQueue, statCalls, outcomes, dbFailures, browser, retry>>

----------------------------------------------------------------------------
(* The browser client *)

\* currentGame = null
NoGame == [absent |-> TRUE]

\* The game state of the page when its script has run, with no response on its way.
PageLoaded ==
    [currentGame   |-> NoGame,
     currentPlayer |-> "X",
     gameBoard     |-> EmptyBoard,
     gameId        |-> NULL,
     inflight      |-> {}]      \* the responses the server has sent, not yet received

\* The JSON body of the 201 of POST /api/games.
CreatedBody(id) ==
    [id |-> id, board |-> EmptyBoard, currentPlayer |-> "X", winner |-> NULL, isDraw |-> FALSE]

\* The JSON body of the 200 of POST /api/games/:id/move.
MoveBody(id, m) ==
    [id |-> id, board |-> m.board, currentPlayer |-> m.nextPlayer, winner |-> m.winner,
     isDraw |-> m.isDraw]

\* The browser has room for one more request.
CanSend == Cardinality(browser.inflight) < MaxClients

\* createNewGame up to its fetch, and the server's handler: the 201 is on its way.
BrowserCreates ==
    /\ CanSend
    /\ \E id \in freeIds :
        /\ games' = InsertGame(games, id)
        /\ freeIds' = freeIds \ {id}
        /\ browser' = [browser EXCEPT !.inflight =
                @ \cup {[kind |-> "create", ok |-> TRUE, game |-> CreatedBody(id)]}]
    /\ UNCHANGED <<moves, player_stats, reqs, statQueue, statCalls, outcomes, dbFailures, proc, retry>>

\* The click on a box: the listener's check, makeMove up to its fetch with the
\* gameId and currentPlayer the page holds, and the server's handler.
BrowserMoves(position) ==
    /\ CanSend
    /\ browser.gameBoard[position] = ""
    /\ browser.currentGame = NoGame \/ (browser.currentGame.winner = NULL /\ ~browser.currentGame.isDraw)
    /\ browser.gameId # NULL
    /\ LET id == browser.gameId
           player == browser.currentPlayer
           error == MoveError(games, id, Num(position), player)
       IN  IF error = ""
           THEN LET m == MakeMove(games[id], Num(position), player)
                IN  /\ moves' = InsertMove(moves, id, player, Num(position))
                    /\ games' = UpdateGame(games, id, m)
                    /\ StatsAfter(m)
                    /\ statCalls' = IF Finished(m) THEN [statCalls EXCEPT ![id] = @ + 1] ELSE statCalls
                    /\ browser' = [browser EXCEPT !.inflight =
                            @ \cup {[kind |-> "move", ok |-> TRUE, game |-> MoveBody(id, m)]}]
           ELSE /\ browser' = [browser EXCEPT !.inflight =
                            @ \cup {[kind |-> "move", ok |-> FALSE, game |-> NoGame]}]
                /\ UNCHANGED <<games, moves, player_stats, statCalls, outcomes, retry>>
    /\ UNCHANGED <<freeIds, reqs, statQueue, dbFailures, proc, retry>>

\* A response arrives: createNewGame and makeMove go on after their await.
BrowserReceives(r) ==
    /\ r \in browser.inflight
    /\ browser' =
        IF ~r.ok THEN [browser EXCEPT !.inflight = @ \ {r}]
        ELSE IF r.kind = "create"
        THEN [currentGame   |-> r.game,
              gameId        |-> r.game.id,
              gameBoard     |-> r.game.board,
              currentPlayer |-> r.game.currentPlayer,
              inflight      |-> browser.inflight \ {r}]
        ELSE [currentGame   |-> r.game,
              gameId        |-> browser.gameId,
              gameBoard     |-> r.game.board,
              currentPlayer |-> r.game.currentPlayer,
              inflight      |-> browser.inflight \ {r}]
    /\ UNCHANGED <<games, moves, player_stats, freeIds, reqs, statQueue, statCalls, outcomes, dbFailures, proc, retry>>

----------------------------------------------------------------------------
(* The retry loops of the build scripts *)

\* The values of NPM_INITIAL_DELAY, the default 5 among them.
InitialDelays == {0, 1, 2, 5}

\* retry_npm "$@" or build_image just called: the locals max_attempts, attempt and
\* delay are set; the command has not run, nothing has slept.
Called(function, max_attempts, delay) ==
    [function     |-> function,
     max_attempts |-> max_attempts,
     attempt      |-> 1,
     delay        |-> delay,
     initial      |-> delay,        \* the delay the call started with
     runs         |-> 0,            \* how often the command has run
     succeeded    |-> FALSE,        \* the command has succeeded in one of its runs
     sleeps       |-> << >>,        \* the arguments of sleep, in order
     returned     |-> FALSE,
     status       |-> 0]            \* the return status, once returned

\* The delay that stays as it is after a failed attempt.
NextDelay_Same(delay) == delay

\* delay=$((delay * 2))
NextDelay(delay) == delay * 2

\* The command runs and succeeds: return 0.
AttemptSucceeds ==
    /\ ~retry.returned
    /\ retry.attempt <= retry.max_attempts
    /\ retry' = [retry EXCEPT !.runs = @ + 1, !.succeeded = TRUE, !.returned = TRUE, !.status = 0]
    /\ UNCHANGED <<games, moves, player_stats, freeIds, reqs, statQueue, statCalls, outcomes, dbFailures, proc, browser>>

\* The command runs and fails: return 1 after the last attempt, else sleep, count
\* the attempt and double the delay.
AttemptFails ==
    /\ ~retry.returned
    /\ retry.attempt <= retry.max_attempts
    /\ retry' = IF retry.attempt = retry.max_attempts
                THEN [retry EXCEPT !.runs = @ + 1, !.returned = TRUE, !.status = 1]
                ELSE [retry EXCEPT !.runs = @ + 1,
                                   !.sleeps = Append(@, retry.delay),
                                   !.attempt = @ + 1,
                                   !.delay = NextDelay(@)]
    /\ UNCHANGED <<games, moves, player_stats, freeIds, reqs, statQueue, statCalls, outcomes, dbFailures, proc, browser>>

\* The test of the while loop fails: the function returns the status of the loop,
\* which is 0 when its body never ran.
LoopEnds ==
    /\ ~retry.returned
    /\ retry.attempt > retry.max_attempts
    /\ retry' = [retry EXCEPT !.returned = TRUE, !.status = 0]
    /\ UNCHANGED <<games, moves, player_stats, freeIds, reqs, statQueue, statCalls, outcomes, dbFailures, proc, browser>>

----------------------------------------------------------------------------
(* Specifications *)

Init ==
    /\ games = [id \in GameIds |-> NoRow]
    /\ moves = << >>
    /\ freeIds = {"g1"}
    /\ player_stats = [k \in StatKeys |-> NoRow]
    /\ reqs = [c \in Clients |-> Idle]
    /\ statQueue = << >>
    /\ statCalls = [id \in GameIds |-> 0]
    /\ outcomes = [k \in StatKeys |-> 0]
    /\ dbFailures = 0
    /\ proc = Serving("listening")
    /\ browser = PageLoaded
    /\ retry = Called("retry_npm", 3, 5)

BookInputs == {Num(n) : n \in BookCells(games["g1"])}

\* One client, whose requests do not overlap; a database statement can fail.
Next ==
    \/ CreateGame(1)
    \/ CreateFails(1)
    \/ \E id \in RequestIds, position \in PositionInputs, player \in PlayerInputs :
        MoveRejected(1, id, position, player)
    \/ \E position \in BookInputs, player \in PlayerInputs :
        MoveAccepted(1, "g1", position, player)
    \/ \E position \in BookInputs, player \in PlayerInputs :
        MoveSelectFails(1, "g1", position, player)
    \/ \E position \in BookInputs, player \in PlayerInputs :
        MoveInsertFails(1, "g1", position, player)
    \/ \E position \in BookInputs, player \in PlayerInputs :
        MoveUpdateFails(1, "g1", position, player)
    \/ Deliver(1)

Spec == Init /\ [][Next]_vars

\* One client, whose requests do not overlap and are all accepted.
NextAll ==
    \/ CreateGame(1)
    \/ \E position \in {Num(n) : n \in ClassCells(games["g1"])}, player \in PlayerInputs :
        MoveAccepted(1, "g1", position, player)
    \/ Deliver(1)

SpecAll == Init /\ [][NextAll]_vars

\* Table games after the accepted moves of one game, made one after the other.
RECURSIVE GamesAfter(_, _, _)
GamesAfter(id, line, k) ==
    IF k = 0 THEN InsertGame([g \in GameIds |-> NoRow], id)
    ELSE LET before == GamesAfter(id, line, k - 1)
         IN  IF MoveError(before, id, Num(line[k]), MarkOfTurn(k)) # "" THEN before
             ELSE UpdateGame(before, id, MakeMove(before[id], Num(line[k]), MarkOfTurn(k)))

\* The rows these moves add to table moves.
RECURSIVE MovesAfter(_, _, _, _)
MovesAfter(tbl, id, line, k) ==
    IF k = 0 THEN tbl
    ELSE LET before == MovesAfter(tbl, id, line, k - 1)
         IN  IF MoveError(GamesAfter(id, line, k - 1), id, Num(line[k]), MarkOfTurn(k)) # ""
             THEN before
             ELSE InsertMove(before, id, MarkOfTurn(k), Num(line[k]))

Quiet ==
    /\ player_stats = [k \in StatKeys |-> NoRow]
    /\ reqs = [c \in Clients |-> Idle]
    /\ statQueue = << >>
    /\ statCalls = [id \in GameIds |-> 0]
    /\ outcomes = [k \in StatKeys |-> 0]
    /\ dbFailures = 0
    /\ proc = Serving("listening")
    /\ browser = PageLoaded
    /\ retry = Called("retry_npm", 3, 5)

\* The games of SpecConc have come this far when the requests start to overlap.
ConcOpenings == {<<0, 3, 1, 4, 6, 8>>, <<0, 1, 2, 4, 3, 5, 7>>}

InitConc ==
    /\ \E line \in ConcOpenings :
        /\ games = GamesAfter("g1", line, Len(line))
        /\ moves = MovesAfter(<< >>, "g1", line, Len(line))
    /\ freeIds = {}
    /\ Quiet

CellInputs == {Num(n) : n \in Cells}

\* Several clients, whose requests on one game overlap. A rejected request changes
\* nothing and is left to Spec.
NextConc ==
    \/ \E c \in Clients, position \in CellInputs, player \in PlayerInputs :
        MoveSelected(c, "g1", position, player)
    \/ \E c \in Clients : MoveInserted(c)
    \/ \E c \in Clients : MoveUpdated(c)
    \/ \E i \in 1..Len(statQueue) : StatementRuns(i)
    \/ \E c \in Clients : Deliver(c)

SpecConc == InitConc /\ [][NextConc]_vars

\* How far the two games of SpecGames have come: g1 has three empty cells and X to
\* move, g2 has two and O to move.
GamesOpening == [id \in GameIds |->
                    IF id = "g1" THEN <<0, 3, 1, 4, 6, 8>> ELSE <<0, 1, 2, 4, 3, 5, 7>>]

InitGames ==
    /\ games = [id \in GameIds |-> GamesAfter(id, GamesOpening[id], Len(GamesOpening[id]))[id]]
    /\ moves = MovesAfter(MovesAfter(<< >>, "g1", GamesOpening["g1"], Len(GamesOpening["g1"])),
                          "g2", GamesOpening["g2"], Len(GamesOpening["g2"]))
    /\ freeIds = {}
    /\ Quiet

\* One client, whose requests on two games do not overlap; a database statement
\* can fail.
NextGames ==
    \/ \E id \in GameIds, position \in CellInputs, player \in PlayerInputs :
        MoveRejected(1, id, position, player)
    \/ \E id \in GameIds, position \in CellInputs, player \in PlayerInputs :
        MoveAccepted(1, id, position, player)
    \/ \E id \in GameIds, position \in CellInputs, player \in PlayerInputs :
        MoveInsertFails(1, id, position, player)
    \/ \E id \in GameIds, position \in CellInputs, player \in PlayerInputs :
        MoveUpdateFails(1, id, position, player)
    \/ Deliver(1)

SpecGames == InitGames /\ [][NextGames]_vars

\* updatePlayerStats as the handler of a move that ends a game calls it.
StatsCall(winner, isDraw) ==
    /\ outcomes["X"] + outcomes["O"] + outcomes["Draw"] < MaxOutcomes
    /\ StatsAfter([winner |-> winner, isDraw |-> isDraw])
    /\ UNCHANGED <<games, moves, freeIds, reqs, statQueue, statCalls, dbFailures, proc, browser, retry>>

InitStats ==
    /\ games = [id \in GameIds |-> NoRow]
    /\ moves = << >>
    /\ freeIds = {}
    /\ Quiet

\* Games end one after the other, each with a win or a draw.
NextStats ==
    \/ \E winner \in Marks : StatsCall(winner, FALSE)
    \/ StatsCall(NULL, TRUE)

SpecStats == InitStats /\ [][NextStats]_vars

\* The cells of the book for a game that has not come to the end of its lines.
OpeningCells(game) ==
    IF game = NoRow \/ \A line \in Book : Cardinality(Marked(JSONParse(game.board))) >= Len(line)
    THEN {}
    ELSE BookCells(game)

\* Game g1 is three moves from its end when a second game is created.
InitCreate ==
    /\ games = GamesAfter("g1", GamesOpening["g1"], Len(GamesOpening["g1"]))
    /\ moves = MovesAfter(<< >>, "g1", GamesOpening["g1"], Len(GamesOpening["g1"]))
    /\ freeIds = {"g2"}
    /\ Quiet

\* One client plays game g1 to its end, creates game g2 at any time and plays the
\* lines of the book in it; the INSERT of a game can fail.
NextCreate ==
    \/ CreateGame(1)
    \/ CreateFails(1)
    \/ \E position \in CellInputs, player \in PlayerInputs :
        MoveAccepted(1, "g1", position, player)
    \/ \E position \in {Num(n) : n \in OpeningCells(games["g2"])}, player \in PlayerInputs :
        MoveAccepted(1, "g2", position, player)
    \/ Deliver(1)

SpecCreate == InitCreate /\ [][NextCreate]_vars

\* A caller is about to call updatePlayerStats with any winner and any isDraw, the
\* pairs that the handler of a move never passes included.
StatsArgs(c, winner, isDraw) ==
    /\ reqs[c] = Idle
    /\ reqs' = [reqs EXCEPT ![c] = [pc |-> "stats", winner |-> winner, isDraw |-> isDraw]]
    /\ UNCHANGED <<games, moves, player_stats, freeIds, statQueue, statCalls, outcomes, dbFailures, proc, browser, retry>>

\* updatePlayerStats(winner, isDraw) runs with the arguments of the caller.
StatsCalled(c) ==
    /\ reqs[c] # Idle
    /\ reqs[c].pc = "stats"
    /\ outcomes["X"] + outcomes["O"] + outcomes["Draw"] < MaxOutcomes
    /\ player_stats' = RunStatements(player_stats, updatePlayerStats(reqs[c].winner, reqs[c].isDraw))
    /\ outcomes' = IF reqs[c].isDraw THEN [outcomes EXCEPT !["Draw"] = @ + 1]
                   ELSE IF reqs[c].winner # NULL THEN [outcomes EXCEPT ![reqs[c].winner] = @ + 1]
                   ELSE outcomes
    /\ reqs' = [reqs EXCEPT ![c] = Idle]
    /\ UNCHANGED <<games, moves, freeIds, statQueue, statCalls, dbFailures, proc, browser, retry>>

NextStatsAny ==
    \/ \E winner \in Marks \cup {NULL}, isDraw \in BOOLEAN : StatsArgs(1, winner, isDraw)
    \/ StatsCalled(1)

SpecStatsAny == InitStats /\ [][NextStatsAny]_vars

\* The ids a request can name: the two games and an id that no game ever gets.
AllIds == GameIds \cup RequestIds

\* One client reads games and sends moves, to ids with and without a game, while
\* game g1 is played to its end and game g2 is created and opened.
NextRead ==
    \/ CreateGame(1)
    \/ \E id \in AllIds : GetGame(1, id)
    \/ \E id \in AllIds : GetFails(1, id)
    \/ \E id \in AllIds, position \in PositionInputs, player \in PlayerInputs :
        MoveRejected(1, id, position, player)
    \/ \E id \in AllIds, position \in {Num(4), Undefined}, player \in PlayerInputs :
        MoveSelectFails(1, id, position, player)
    \/ \E position \in CellInputs, player \in PlayerInputs :
        MoveAccepted(1, "g1", position, player)
    \/ \E position \in {Num(n) : n \in OpeningCells(games["g2"])}, player \in PlayerInputs :
        MoveAccepted(1, "g2", position, player)
    \/ Deliver(1)

SpecRead == InitCreate /\ [][NextRead]_vars

InitShutdown ==
    /\ games = GamesAfter("g1", GamesOpening["g1"], Len(GamesOpening["g1"]))
    /\ moves = MovesAfter(<< >>, "g1", GamesOpening["g1"], Len(GamesOpening["g1"]))
    /\ freeIds = {"g2"}
    /\ player_stats = [k \in StatKeys |-> NoRow]
    /\ reqs = [c \in Clients |-> Idle]
    /\ statQueue = << >>
    /\ statCalls = [id \in GameIds |-> 0]
    /\ outcomes = [k \in StatKeys |-> 0]
    /\ dbFailures = 0
    /\ \E server \in {"listening", "none"} : proc = Serving(server)
    /\ browser = PageLoaded
    /\ retry = Called("retry_npm", 3, 5)

\* One client is served until a signal arrives; a response can still be taken
\* while the server closes; the server closes when no request is in flight.
NextShutdown ==
    \/ Accepting /\ CreateGame(1)
    \/ Accepting /\ \E position \in CellInputs, player \in PlayerInputs :
                        MoveAccepted(1, "g1", position, player)
    \/ Running /\ Deliver(1)
    \/ \E signal \in Signals : SignalReceived(signal)
    \/ ServerClosed
    \/ DbClosed
    \/ DbCloseFails
    \/ TimerFires

SpecShutdown == InitShutdown /\ [][NextShutdown]_vars

\* updatePlayerStats called by a handler whose game has ended: its statements are
\* handed to db.run and run later. At most one call for each client is waiting.
StatsIssued(winner, isDraw) ==
    /\ outcomes["X"] + outcomes["O"] + outcomes["Draw"] < MaxOutcomes
    /\ Len(statQueue) + Len(updatePlayerStats(winner, isDraw)) <= 2 * MaxClients
    /\ statQueue' = statQueue \o updatePlayerStats(winner, isDraw)
    /\ outcomes' = [outcomes EXCEPT ![IF isDraw THEN "Draw" ELSE winner] = @ + 1]
    /\ UNCHANGED <<games, moves, player_stats, freeIds, reqs, statCalls, dbFailures, proc, browser, retry>>

\* Games end at the same time: the statements of their calls run in any order.
NextStatsConc ==
    \/ \E winner \in Marks : StatsIssued(winner, FALSE)
    \/ StatsIssued(NULL, TRUE)
    \/ \E i \in 1..Len(statQueue) : StatementRuns(i)

SpecStatsConc == InitStats /\ [][NextStatsConc]_vars

InitBrowser ==
    /\ games = [id \in GameIds |-> NoRow]
    /\ moves = << >>
    /\ freeIds = GameIds
    /\ Quiet

\* The page creates games and plays the lines of the book in the game it holds;
\* the responses arrive in any order.
NextBrowser ==
    \/ BrowserCreates
    \/ \E position \in (IF browser.gameId = NULL THEN {} ELSE OpeningCells(games[browser.gameId])) :
        BrowserMoves(position)
    \/ \E r \in browser.inflight : BrowserReceives(r)

SpecBrowser == InitBrowser /\ [][NextBrowser]_vars

\* A call of retry_npm with any NPM_MAX_ATTEMPTS and NPM_INITIAL_DELAY, or a call of
\* build_image with its 3 attempts and 10 seconds.
InitRetry ==
    /\ games = [id \in GameIds |-> NoRow]
    /\ moves = << >>
    /\ freeIds = {}
    /\ player_stats = [k \in StatKeys |-> NoRow]
    /\ reqs = [c \in Clients |-> Idle]
    /\ statQueue = << >>
    /\ statCalls = [id \in GameIds |-> 0]
    /\ outcomes = [k \in StatKeys |-> 0]
    /\ dbFailures = 0
    /\ proc = Serving("listening")
    /\ browser = PageLoaded
    /\ \/ \E max_attempts \in 0..MaxAttempts, delay \in InitialDelays :
            retry = Called("retry_npm", max_attempts, delay)
       \/ retry = Called("build_image", 3, 10)

NextRetry ==
    \/ AttemptSucceeds
    \/ AttemptFails
    \/ LoopEnds

SpecRetry == InitRetry /\ [][NextRetry]_vars

----------------------------------------------------------------------------
(* Properties *)

Terminal(game) == game # NoRow /\ (game.winner # NULL \/ game.is_draw # 0)

RowsOf(tbl, id) == SelectSeq(tbl, LAMBDA row : row.game_id = id)

BoardOf(id) == JSONParse(games[id].board)

Other(mark) == IF mark = "X" THEN "O" ELSE "X"

\* C1: in every reachable state of a game, winner is null, X or O, is_draw is 0 or 1,
\* and is_draw is never 1 while winner is set.
C1_WinnerDrawExclusive ==
    \A id \in GameIds :
        games[id] # NoRow =>
            /\ games[id].winner \in Marks \cup {NULL}
            /\ games[id].is_draw \in {0, 1}
            /\ ~(games[id].winner # NULL /\ games[id].is_draw = 1)

\* A game won by the move that filled the board: full, winner set, not a draw.
C1_Witness ==
    /\ games["g1"] # NoRow
    /\ checkForDraw(BoardOf("g1"))
    /\ games["g1"].winner = "X"
    /\ games["g1"].is_draw = 0

\* C2: once a game has a winner or is a draw, its row and its recorded moves never
\* change again.
C2_TerminalPermanent ==
    [][\A id \in GameIds :
        Terminal(games[id]) =>
            /\ games'[id] = games[id]
            /\ RowsOf(moves', id) = RowsOf(moves, id)]_vars

\* C3: a move request with a position in 0..8 on a game that has a winner or is a
\* draw is answered "Game is already finished".
C3_TerminalSaysFinished ==
    \A c \in Clients :
        (/\ reqs[c] # Idle
         /\ reqs[c].pc = "done"
         /\ reqs[c].status = 400
         /\ reqs[c].error \notin {"Invalid position", "Position and player are required"}
         /\ Terminal(GameRow(games, reqs[c].id)))
        => reqs[c].error = "Game is already finished"

\* The move (player, position) applied completely to game id: the row recorded, the
\* cell written, the turn passed on, winner and is_draw those of the new board.
Applied(id, player, position) ==
    LET board == JSONParse(games[id].board)
        after == [board EXCEPT ![position] = player]
    IN  /\ board[position] = ""
        /\ RowsOf(moves', id) =
            Append(RowsOf(moves, id), [game_id |-> id, player |-> player, position |-> position])
        /\ games'[id].board = JSONStringify(after)
        /\ games'[id].current_player = Other(player)
        /\ games'[id].winner = checkWinner(after)
        /\ games'[id].is_draw = SqlBool(checkWinner(after) = NULL /\ checkForDraw(after))

\* C4: every step leaves a game's row and its recorded moves unchanged, or applies
\* one move completely.
C4_AllOrNothing ==
    [][\A id \in GameIds :
        games[id] # NoRow =>
            \/ games'[id] = games[id] /\ RowsOf(moves', id) = RowsOf(moves, id)
            \/ \E player \in Marks, position \in Cells : Applied(id, player, position)]_vars

InFlight(c) == reqs[c] # Idle /\ reqs[c].pc \in {"insert", "update"}

TurnOf(c) == Cardinality(Marked(reqs[c].m.board))

\* C5: two requests that overlap are never both past the checks for the same game,
\* the same player and the same turn.
C5_OnePerTurn ==
    \A c1, c2 \in Clients :
        (c1 # c2 /\ InFlight(c1) /\ InFlight(c2) /\ reqs[c1].id = reqs[c2].id)
        => ~(reqs[c1].player = reqs[c2].player /\ TurnOf(c1) = TurnOf(c2))

\* C6: every row of player_stats has total_games = wins + losses + draws.
C6_TotalIsSum ==
    \A k \in StatKeys :
        player_stats[k] # NoRow =>
            player_stats[k].total_games =
                player_stats[k].wins + player_stats[k].losses + player_stats[k].draws

\* C7: no step makes a counter of player_stats smaller.
C7_Monotonic ==
    [][\A k \in StatKeys, column \in Columns :
        Coalesce(player_stats', k, column) >= Coalesce(player_stats, k, column)]_vars

\* C8: the call for a win of m adds exactly 1 to the wins of m, to the losses of the
\* other mark and to the total_games of both; the call for a draw adds exactly 1 to the
\* draws and the total_games of key Draw; a row that did not exist counts as 0.
C8_CallAddsOne ==
    [][\A k \in StatKeys :
        outcomes'[k] = outcomes[k] + 1 =>
            IF k = "Draw"
            THEN /\ player_stats'[k] # NoRow
                 /\ player_stats'[k].draws = Coalesce(player_stats, k, "draws") + 1
                 /\ player_stats'[k].total_games = Coalesce(player_stats, k, "total_games") + 1
            ELSE /\ player_stats'[k] # NoRow
                 /\ player_stats'[Other(k)] # NoRow
                 /\ player_stats'[k].wins = Coalesce(player_stats, k, "wins") + 1
                 /\ player_stats'[k].total_games = Coalesce(player_stats, k, "total_games") + 1
                 /\ player_stats'[Other(k)].losses = Coalesce(player_stats, Other(k), "losses") + 1
                 /\ player_stats'[Other(k)].total_games =
                        Coalesce(player_stats, Other(k), "total_games") + 1]_vars

\* Calls made on rows that exist, with counters above 0: X has won twice in a row and
\* a draw was recorded twice.
C8_Witness ==
    /\ player_stats["X"] # NoRow
    /\ player_stats["X"].wins = 2
    /\ player_stats["O"] # NoRow
    /\ player_stats["O"].losses = 2
    /\ player_stats["Draw"] # NoRow
    /\ player_stats["Draw"].draws = 2

\* C9: with requests that do not overlap, updatePlayerStats has been called once for
\* every game that has a winner or is a draw and never for a game in progress, and
\* as many outcomes were handed to it as there are such games.
C9_StatsOncePerFinishedGame ==
    /\ [](/\ \A id \in GameIds :
              games[id] # NoRow => statCalls[id] = IF Terminal(games[id]) THEN 1 ELSE 0
          /\ outcomes["X"] + outcomes["O"] + outcomes["Draw"] =
              Cardinality({id \in GameIds : Terminal(games[id])}))
    /\ [][statCalls' # statCalls =>
            \E id \in GameIds :
                /\ ~Terminal(games[id])
                /\ Terminal(games'[id])
                /\ statCalls' = [statCalls EXCEPT ![id] = @ + 1]
                /\ reqs'[1] = Response(id, 200, "")]_vars

\* Both games are over, one won and one drawn, and a request made after that was
\* rejected.
C9_Witness ==
    /\ games["g1"].winner # NULL
    /\ games["g2"].is_draw = 1
    /\ statCalls["g1"] = 1
    /\ statCalls["g2"] = 1
    /\ reqs[1] # Idle
    /\ reqs[1].pc = "done"
    /\ reqs[1].status = 400

\* C10: the number of rows of moves of a game is the number of cells of its board
\* that hold a mark.
C10_MovesMatchBoard ==
    \A id \in GameIds :
        games[id] # NoRow => Len(RowsOf(moves, id)) = Cardinality(Marked(BoardOf(id)))

\* C11: a cell of the stored board that holds a mark holds the same mark after
\* every step.
C11_CellsKeepMark ==
    [][\A id \in GameIds, cell \in Cells :
        (games[id] # NoRow /\ BoardOf(id)[cell] # "") =>
            JSONParse(games'[id].board)[cell] = BoardOf(id)[cell]]_vars

\* C12: the stored current_player is X when the board holds an even number of marks
\* and O when it holds an odd number, and a move is accepted only from the mark that
\* is the stored current_player when the move is accepted, so that accepted moves
\* alternate X, O, X, O, ...
C12_TurnsAlternate ==
    /\ [](\A id \in GameIds :
            games[id] # NoRow =>
                games[id].current_player = MarkOfTurn(Cardinality(Marked(BoardOf(id))) + 1))
    /\ [][\A c \in Clients :
            (/\ reqs[c] # Idle
             /\ reqs[c].pc = "update"
             /\ reqs'[c] = Response(reqs[c].id, 200, "")) =>
                games[reqs[c].id].current_player = reqs[c].player]_vars

\* The step answers client c with the error, and leaves every table as it was.
RejectedWith(c, error) ==
    (/\ reqs[c] = Idle
     /\ reqs'[c] # Idle
     /\ reqs'[c].pc = "done"
     /\ reqs'[c].status = 400
     /\ reqs'[c].error = error) =>
        (games' = games /\ moves' = moves /\ player_stats' = player_stats)

\* The cells of the board of game id that the step marks.
Written(id) == {cell \in Cells : BoardOf(id)[cell] # JSONParse(games'[id].board)[cell]}

\* C13: a request on an existing game whose body passes the checks and whose player
\* is not the game's current_player is answered 400 'Not your turn'; the step that
\* answers so changes no table, and a step that changes a board writes the mark of
\* the current_player only.
C13_NotYourTurn ==
    /\ [](\A id \in GameIds, position \in PositionInputs, player \in PlayerInputs :
            (/\ games[id] # NoRow
             /\ RequestError(position, player) = ""
             /\ player # games[id].current_player) =>
                /\ MoveError(games, id, position, player) = "Not your turn"
                /\ StatusOf(MoveError(games, id, position, player)) = 400)
    /\ [][\A c \in Clients : RejectedWith(c, "Not your turn")]_vars
    /\ [][\A id \in GameIds :
            games[id] # NoRow =>
                \A cell \in Written(id) :
                    JSONParse(games'[id].board)[cell] = games[id].current_player]_vars

\* X has played cell 0 and then asked for cell 1: the answer is 'Not your turn'.
C13_Witness ==
    /\ games["g1"] # NoRow
    /\ Marked(BoardOf("g1")) = {0}
    /\ games["g1"].current_player = "O"
    /\ reqs[1] = Response("g1", 400, "Not your turn")

\* C14: a request of the game's current_player on a cell of 0..8 that holds a mark is
\* answered 400 'Position already taken'; the step that answers so changes no table,
\* and a step that changes a board writes cells that were empty only.
C14_PositionTaken ==
    /\ [](\A id \in GameIds, position \in PositionInputs, player \in PlayerInputs :
            (/\ games[id] # NoRow
             /\ IsIndex(position)
             /\ BoardOf(id)[position.n \div position.d] # ""
             /\ player = games[id].current_player) =>
                /\ MoveError(games, id, position, player) = "Position already taken"
                /\ StatusOf(MoveError(games, id, position, player)) = 400)
    /\ [][\A c \in Clients : RejectedWith(c, "Position already taken")]_vars
    /\ [][\A id \in GameIds :
            games[id] # NoRow =>
                \A cell \in Written(id) : BoardOf(id)[cell] = ""]_vars

\* X has played cell 0 and O has asked for cell 0: the answer is 'Position already
\* taken'.
C14_Witness ==
    /\ games["g1"] # NoRow
    /\ Marked(BoardOf("g1")) = {0}
    /\ games["g1"].current_player = "O"
    /\ reqs[1] = Response("g1", 400, "Position already taken")

\* C15: a request on an existing game whose position is a number that is not an
\* integer of 0..8 is answered 400 'Invalid position', and the step that answers so
\* changes no table.
C15_InvalidPosition ==
    /\ [](\A id \in GameIds, position \in PositionInputs \ {Undefined}, player \in PlayerInputs :
            (games[id] # NoRow /\ ~IsIndex(position)) =>
                /\ MoveError(games, id, position, player) = "Invalid position"
                /\ StatusOf(MoveError(games, id, position, player)) = 400)
    /\ [][\A c \in Clients : RejectedWith(c, "Invalid position")]_vars

\* The board of game id after the step.
BoardAfter(id) == JSONParse(games'[id].board)

Full(board) == \A cell \in Cells : board[cell] # ""

Lines(board) == {i \in 1..Len(winPatterns) : PatternComplete(board, i)}

C18_WinBeforeDraw ==
    [][\A id \in GameIds :
        (/\ games[id] # NoRow
         /\ Cardinality(Marked(BoardOf(id))) = 8
         /\ Full(BoardAfter(id))
         /\ Lines(BoardAfter(id)) # {}) =>
            LET mover == games[id].current_player
            IN  /\ games'[id].winner = mover
                /\ games'[id].is_draw = 0
                /\ outcomes' = [outcomes EXCEPT ![mover] = @ + 1]
                /\ player_stats'[mover] # NoRow
                /\ player_stats'[mover].wins = Coalesce(player_stats, mover, "wins") + 1
                /\ player_stats'["Draw"] = player_stats["Draw"]]_vars

\* Game g1 was drawn, and then the ninth move of game g2 filled its board and
\* completed the column 0, 3, 6 for X.
C18_Witness ==
    /\ games["g1"].is_draw = 1
    /\ Full(BoardOf("g2"))
    /\ games["g2"].winner = "X"
    /\ games["g2"].is_draw = 0
    /\ outcomes = [X |-> 1, O |-> 0, Draw |-> 1]
    /\ player_stats["Draw"] # NoRow
    /\ player_stats["Draw"].draws = 1
    /\ player_stats["X"] # NoRow
    /\ player_stats["X"].wins = 1

PatternCells(i) == {winPatterns[i][k] : k \in 1..3}

\* C19: the stored board of a game holds at most one complete pattern.
C19_AtMostOnePattern ==
    \A id \in GameIds :
        games[id] # NoRow => Cardinality(Lines(BoardOf(id))) <= 1

\* C19, amended: the stored board of a game holds at most two complete patterns;
\* the patterns that are complete were all completed by the same move, on a board
\* that had none, so that they share the cell of that move and hold the same mark.
C19_LinesOfOneMove ==
    /\ [](\A id \in GameIds :
            games[id] # NoRow =>
                /\ Cardinality(Lines(BoardOf(id))) <= 2
                /\ \A i, j \in Lines(BoardOf(id)) :
                    /\ PatternCells(i) \cap PatternCells(j) # {}
                    /\ BoardOf(id)[winPatterns[i][1]] = BoardOf(id)[winPatterns[j][1]])
    /\ [][\A id \in GameIds :
            (games[id] # NoRow /\ Lines(BoardAfter(id)) # Lines(BoardOf(id))) =>
                /\ Lines(BoardOf(id)) = {}
                /\ \E cell \in Written(id) :
                    \A i \in Lines(BoardAfter(id)) : cell \in PatternCells(i)]_vars

\* The ninth move, X on cell 0, has completed the row 0, 1, 2 and the column 0, 3, 6
\* at once.
C19_Witness ==
    /\ games["g1"] # NoRow
    /\ Lines(BoardOf("g1")) = {1, 4}
    /\ games["g1"].winner = "X"
    /\ games["g1"].is_draw = 0

\* Orders in which the 8 patterns can be scanned: the order of the list, its reverse,
\* and the list with pattern i exchanged with the first. Every pattern comes first in
\* one of them.
ScanOrders ==
    {[k \in 1..Len(winPatterns) |-> k], [k \in 1..Len(winPatterns) |-> Len(winPatterns) + 1 - k]}
    \cup {[k \in 1..Len(winPatterns) |-> IF k = 1 THEN i ELSE IF k = i THEN 1 ELSE k] :
            i \in 1..Len(winPatterns)}

\* C20: on the stored board of a game checkWinner returns the same value in whatever
\* order the patterns are scanned, all complete patterns holding the same mark.
C20_ScanOrderFree ==
    \A id \in GameIds :
        games[id] # NoRow =>
            /\ \A order \in ScanOrders :
                checkWinnerIn(BoardOf(id), order) = checkWinner(BoardOf(id))
            /\ \A i, j \in Lines(BoardOf(id)) :
                BoardOf(id)[winPatterns[i][1]] = BoardOf(id)[winPatterns[j][1]]

\* X has completed both diagonals with the ninth move: the scan in list order finds
\* 0, 4, 8 first, the reverse scan finds 2, 4, 6 first.
C20_Witness ==
    /\ games["g1"] # NoRow
    /\ Lines(BoardOf("g1")) = {7, 8}
    /\ checkWinnerIn(BoardOf("g1"), [k \in 1..Len(winPatterns) |-> Len(winPatterns) + 1 - k]) = "X"
    /\ games["g1"].winner = "X"

\* C21: the step that creates a game stores a row with 9 empty cells, current_player
\* X, winner null and is_draw 0, answers 201, leaves the game without rows in moves,
\* and changes no other game, no row of moves and no statistics.
C21_FreshGame ==
    [][\A id \in GameIds :
        (games[id] = NoRow /\ games'[id] # NoRow) =>
            /\ \A cell \in Cells : BoardAfter(id)[cell] = ""
            /\ games'[id].current_player = "X"
            /\ games'[id].winner = NULL
            /\ games'[id].is_draw = 0
            /\ RowsOf(moves', id) = << >>
            /\ \E c \in Clients : reqs[c] = Idle /\ reqs'[c] = Response(id, 201, "")
            /\ \A other \in GameIds \ {id} : games'[other] = games[other]
            /\ moves' = moves
            /\ player_stats' = player_stats]_vars

\* Game g2 has just been created, after game g1 was won by X and counted.
C21_Witness ==
    /\ games["g1"].winner = "X"
    /\ player_stats["X"] # NoRow
    /\ player_stats["X"].wins = 1
    /\ Len(RowsOf(moves, "g1")) = 7
    /\ games["g2"] # NoRow
    /\ Marked(BoardOf("g2")) = {}
    /\ reqs[1] = Response("g2", 201, "")

\* C22: a call of updatePlayerStats with a winner mark and isDraw = true changes no
\* counter of any row.
C22_RejectsWinnerAndDraw ==
    [][\A c \in Clients :
        (/\ reqs[c] # Idle
         /\ reqs[c].pc = "stats"
         /\ reqs[c].winner # NULL
         /\ reqs[c].isDraw
         /\ reqs'[c] = Idle) =>
            player_stats' = player_stats]_vars

\* C27: when every statement of every call has run, the wins of each mark are the
\* number of games it won, its losses the number of games the other mark won, and
\* the draws of key Draw the number of drawn games.
C27_Cumulative ==
    statQueue = << >> =>
        /\ \A m \in Marks :
            /\ Coalesce(player_stats, m, "wins") = outcomes[m]
            /\ Coalesce(player_stats, m, "losses") = outcomes[Other(m)]
        /\ Coalesce(player_stats, "Draw", "draws") = outcomes["Draw"]

\* C28: the call for a win of m leaves the losses and draws of m, the wins and draws
\* of the other mark and the row of key Draw as they were; the call for a draw
\* leaves the rows of X and O as they were.
C28_OnlyOwnCounters ==
    [][\A k \in StatKeys :
        outcomes'[k] = outcomes[k] + 1 =>
            IF k = "Draw"
            THEN \A m \in Marks : player_stats'[m] = player_stats[m]
            ELSE /\ Coalesce(player_stats', k, "losses") = Coalesce(player_stats, k, "losses")
                 /\ Coalesce(player_stats', k, "draws") = Coalesce(player_stats, k, "draws")
                 /\ Coalesce(player_stats', Other(k), "wins") = Coalesce(player_stats, Other(k), "wins")
                 /\ Coalesce(player_stats', Other(k), "draws") = Coalesce(player_stats, Other(k), "draws")
                 /\ player_stats'["Draw"] = player_stats["Draw"]]_vars

\* C25: whenever no request on a game is between its SELECT and its UPDATE, the
\* stored board of the game holds exactly the marks of the rows of moves of the
\* game, one row for each marked cell; and no step empties a marked cell.
C25_BoardIsRecordedMoves ==
    /\ []((\A c \in Clients : ~InFlight(c)) =>
            \A id \in GameIds :
                games[id] # NoRow =>
                    LET rows == RowsOf(moves, id)
                    IN  /\ Len(rows) = Cardinality(Marked(BoardOf(id)))
                        /\ \A cell \in Cells, m \in Marks :
                            BoardOf(id)[cell] = m <=>
                                \E i \in 1..Len(rows) :
                                    rows[i].position = cell /\ rows[i].player = m)
    /\ [][\A id \in GameIds, cell \in Cells :
            (games[id] # NoRow /\ BoardOf(id)[cell] # "") => BoardAfter(id)[cell] # ""]_vars

\* C26: updatePlayerStats is called at most once for a game.
C26_StatsAtMostOnce ==
    \A id \in GameIds : statCalls[id] <= 1

\* C30: every step that accepts a move stores the other mark than the one it
\* places as current_player (the mark of the request where the handler runs in
\* steps, the mark that appears on the board where it runs in one step); and
\* whenever a winner is stored, the last row of moves of the game is a move of the
\* winner and current_player is the other mark.
C30_TurnPassesOn ==
    /\ [][\A c \in Clients :
            (reqs'[c].pc = "done" /\ reqs'[c].status = 200) =>
                /\ reqs[c].pc = "update" =>
                        games'[reqs[c].id].current_player = Other(reqs[c].player)
                /\ \A id \in GameIds :
                        (reqs[c] = Idle /\ games[id] # NoRow /\ Written(id) # {}) =>
                            \E cell \in Written(id) :
                                /\ BoardAfter(id)[cell] # ""
                                /\ games'[id].current_player = Other(BoardAfter(id)[cell])]_vars
    /\ [](\A id \in GameIds :
            (games[id] # NoRow /\ games[id].winner # NULL) =>
                LET rows == RowsOf(moves, id)
                IN  /\ rows # << >>
                    /\ rows[Len(rows)].player = games[id].winner
                    /\ games[id].current_player = Other(games[id].winner))

\* The first constraint a move request violates, in the order invalid position,
\* game not found, not the player's turn, position occupied, game finished.
FirstViolation(tbl, id, position, player) ==
    LET game == GameRow(tbl, id)
    IN  IF ~IsIndex(position) THEN "Invalid position"
        ELSE IF game = NoRow THEN "Game not found"
        ELSE IF player # game.current_player THEN "Not your turn"
        ELSE IF JSONParse(game.board)[position.n \div position.d] # "" THEN "Position already taken"
        ELSE IF Terminal(game) THEN "Game is already finished"
        ELSE ""

\* C29: a move request with a position is answered with the first constraint it
\* violates in the order invalid position, game not found, not the player's turn,
\* position occupied, game finished; and a step that answers 400 or 404 changes no
\* table.
C29_FirstErrorInOrder ==
    /\ [](\A id \in RequestIds, position \in PositionInputs \ {Undefined}, player \in PlayerInputs :
            MoveError(games, id, position, player) = FirstViolation(games, id, position, player))
    /\ [][\A c \in Clients :
            (reqs[c] = Idle /\ reqs'[c].pc = "done" /\ reqs'[c].status \in {400, 404}) =>
                (games' = games /\ moves' = moves /\ player_stats' = player_stats)]_vars

\* C23 as stated: every read and every move request that names an id without a
\* game is answered 404 'Game not found', whatever its body.
C23_NotFound ==
    \A id \in AllIds :
        GameRow(games, id) = NoRow =>
            /\ ReadError(games, id) = "Game not found"
            /\ \A position \in PositionInputs, player \in PlayerInputs :
                /\ MoveError(games, id, position, player) = "Game not found"
                /\ StatusOf(MoveError(games, id, position, player)) = 404

\* C23: a read request, and a move request whose body passes the checks made
\* before the game is read, that names an id without a game is answered 404 'Game
\* not found'; and a step that answers 404 names an id without a game and changes
\* no table.
C23_NotFoundAfterBodyChecks ==
    /\ [](\A id \in AllIds :
            GameRow(games, id) = NoRow =>
                /\ ReadError(games, id) = "Game not found"
                /\ StatusOf(ReadError(games, id)) = 404
                /\ \A position \in PositionInputs, player \in PlayerInputs :
                    RequestError(position, player) = "" =>
                        /\ MoveError(games, id, position, player) = "Game not found"
                        /\ StatusOf(MoveError(games, id, position, player)) = 404)
    /\ [][\A c \in Clients :
            (reqs[c] = Idle /\ reqs'[c].pc = "done" /\ reqs'[c].status = 404) =>
                /\ reqs'[c].error = "Game not found"
                /\ GameRow(games, reqs'[c].id) = NoRow
                /\ games' = games
                /\ moves' = moves
                /\ player_stats' = player_stats
                /\ freeIds' = freeIds]_vars

C23_Witness ==
    /\ reqs[1] = Response("non-existent-id", 404, "Game not found")
    /\ games["g1"].winner = "X"
    /\ games["g2"] # NoRow
    /\ player_stats["X"] # NoRow

\* C24: when the process has an HTTP server, db.close is not called before the
\* server has closed; the process has exited with code 0 only if the database
\* closed without an error; and it has exited with code 1 when closing the
\* database failed and when the forced-shutdown timer fired.
C24_GracefulShutdown ==
    /\ (proc.server # "none" /\ (proc.db # "open" \/ proc.dbCloses > 0)) => proc.server = "closed"
    /\ (proc.exited /\ proc.code = 0) => proc.db = "closed"
    /\ proc.db = "failed" => (proc.exited /\ proc.code = 1)
    /\ proc.timedOut => (proc.exited /\ proc.code = 1)

C24_Witness ==
    /\ proc.signals > 0
    /\ proc.server = "closed"
    /\ proc.db = "closed"
    /\ proc.exited
    /\ proc.code = 0
    /\ games["g2"] # NoRow

\* The cells of the board that hold the mark.
CellsOf(board, mark) == {cell \in Cells : board[cell] = mark}

\* C31: with requests that do not overlap, in every state of every game the number
\* of X on the board minus the number of O is 0 or 1, and current_player is X
\* exactly when the two numbers are equal.
C31_MarksAlternate ==
    \A id \in GameIds :
        games[id] # NoRow =>
            LET x == Cardinality(CellsOf(BoardOf(id), "X"))
                o == Cardinality(CellsOf(BoardOf(id), "O"))
            IN  /\ x - o \in {0, 1}
                /\ games[id].current_player = "X" <=> x = o

\* A drawn game: 5 X and 4 O on the board, O named as the next player.
C31_Witness ==
    /\ games["g1"] # NoRow
    /\ games["g1"].is_draw = 1
    /\ Cardinality(CellsOf(BoardOf("g1"), "X")) = 5
    /\ Cardinality(CellsOf(BoardOf("g1"), "O")) = 4
    /\ games["g1"].current_player = "O"
    /\ Len(RowsOf(moves, "g1")) = 9

\* C32: a game accepts at most 9 moves (where no statement fails, the rows of moves
\* of the game are the moves of the requests that passed every check); a game
\* whose board is full is terminal; and once no request is between its SELECT and
\* its UPDATE, a game with 9 accepted moves is terminal.
C32_AtMostNineMoves ==
    \A id \in GameIds :
        games[id] # NoRow =>
            /\ Len(RowsOf(moves, id)) <= 9
            /\ Full(BoardOf(id)) => Terminal(games[id])
            /\ (Len(RowsOf(moves, id)) = 9 /\ \A c \in Clients : ~InFlight(c)) =>
                    Terminal(games[id])

\* The decimal text of a position in the moves table, and parseInt of such a text.
DigitText == [n \in 0..9 |-> <<"0", "1", "2", "3", "4", "5", "6", "7", "8", "9">>[n + 1]]

parseInt(text) == CHOOSE n \in 0..9 : DigitText[n] = text

\* GROUP_CONCAT(m.player || ':' || m.position) of GET /api/games for one game, split
\* at ',': one text for each row of moves of the game.
move_history(tbl, id) ==
    LET rows == RowsOf(tbl, id)
    IN  [i \in 1..Len(rows) |-> <<rows[i].player, ":", DigitText[rows[i].position]>>]

\* moveHistory of the response: each text split at ':' into player and position.
moveHistory(tbl, id) ==
    LET texts == move_history(tbl, id)
    IN  [i \in 1..Len(texts) |-> [player |-> texts[i][1], position |-> parseInt(texts[i][3])]]

\* The client's history view: board[move.position] = move.player, move after move,
\* on Array(9).fill('').
RECURSIVE Replay(_, _)
Replay(board, history) ==
    IF history = << >> THEN board
    ELSE Replay([board EXCEPT ![Head(history).position] = Head(history).player], Tail(history))

\* C33: for every game, the recorded moves replayed in order onto an empty board
\* give the stored board, and no position occurs twice among them.
C33_ReplayGivesBoard ==
    \A id \in GameIds :
        games[id] # NoRow =>
            LET history == moveHistory(moves, id)
            IN  /\ Replay(EmptyBoard, history) = BoardOf(id)
                /\ \A i, j \in 1..Len(history) :
                    history[i].position = history[j].position => i = j

\* C34: whenever no statement of updatePlayerStats is waiting to run, the rows of X
\* and O have the same total_games, which is the number of won games handed to
\* updatePlayerStats so far; both rows exist as soon as one game was won.
C34_TotalsOfMarksAgree ==
    statQueue = << >> =>
        LET decisive == outcomes["X"] + outcomes["O"]
        IN  /\ Coalesce(player_stats, "X", "total_games") = Coalesce(player_stats, "O", "total_games")
            /\ Coalesce(player_stats, "X", "total_games") = decisive
            /\ \A m \in Marks : player_stats[m] # NoRow <=> decisive > 0

\* Two wins of X, one of O and a draw: both rows count 3 games.
C34_Witness ==
    /\ outcomes = [X |-> 2, O |-> 1, Draw |-> 1]
    /\ player_stats["X"] # NoRow
    /\ player_stats["O"] # NoRow
    /\ player_stats["X"].total_games = 3
    /\ player_stats["O"].total_games = 3

\* The statements for the key that wait in the queue.
Waiting(key) == Len(SelectSeq(statQueue, LAMBDA stmt : stmt.key = key))

\* The statements issued for the key so far: one for X and one for O for each won
\* game, one for Draw for each drawn game.
Issued(key) == IF key = "Draw" THEN outcomes["Draw"] ELSE outcomes["X"] + outcomes["O"]

\* C35: in whatever order the statements of concurrent calls of updatePlayerStats
\* run, total_games of each key is the number of statements issued for the key that
\* have run; when none waits, it is the number of statements issued for the key.
C35_NoLostIncrement ==
    \A key \in StatKeys :
        Coalesce(player_stats, key, "total_games") + Waiting(key) = Issued(key)

\* The statements of three won games have run, the one for the loss of X after
\* the ones for its wins, and the statement of a draw waits.
C35_Witness ==
    /\ outcomes = [X |-> 2, O |-> 1, Draw |-> 1]
    /\ statQueue = << [key |-> "Draw", column |-> "draws"] >>
    /\ Coalesce(player_stats, "X", "total_games") = 3
    /\ Coalesce(player_stats, "O", "total_games") = 3
    /\ player_stats["X"].wins = 0

\* C36: in every state of the page, the game held in currentGame is the game whose
\* id is held in gameId, and the board held in gameBoard is the board of that game.
C36_PageHoldsOneGame ==
    browser.currentGame # NoGame =>
        /\ browser.currentGame.id = browser.gameId
        /\ browser.gameBoard = browser.currentGame.board

\* C37: the command runs at most max_attempts times and not again after a run that
\* succeeded; the function returns 0 only if a run succeeded; and it returns 1
\* exactly when max_attempts runs were made and all failed.
C37_RetryReportsOutcome ==
    /\ [](/\ retry.runs <= retry.max_attempts
          /\ retry.returned =>
                /\ retry.status = 0 => retry.succeeded
                /\ retry.status = 1 <=> (retry.runs = retry.max_attempts /\ ~retry.succeeded))
    /\ [][retry.succeeded => retry'.runs = retry.runs]_vars

RECURSIVE Pow2(_)
Pow2(n) == IF n = 0 THEN 1 ELSE 2 * Pow2(n - 1)

\* C38: the k-th sleep, the one before attempt k + 1, lasts the initial delay times
\* 2^(k-1); while the loop runs every run so far was followed by a sleep, and once
\* the function has returned the last run was not: no sleep follows the run that
\* succeeded or the last run that failed.
C38_ExponentialBackoff ==
    /\ \A k \in 1..Len(retry.sleeps) : retry.sleeps[k] = retry.initial * Pow2(k - 1)
    /\ ~retry.returned => Len(retry.sleeps) = retry.runs
    /\ retry.returned => Len(retry.sleeps) = (IF retry.runs = 0 THEN 0 ELSE retry.runs - 1)
    /\ Len(retry.sleeps) = retry.attempt - 1

\* retry_npm with 4 attempts and the default delay, all failed: it slept 5, 10 and
\* 20 seconds and returned 1.
C38_Witness ==
    /\ retry.function = "retry_npm"
    /\ retry.max_attempts = 4
    /\ retry.runs = 4
    /\ retry.sleeps = <<5, 10, 20>>
    /\ retry.returned
    /\ retry.status = 1

====
